---- MODULE Spec2Model ----
(***************************************************************************)
(* Model of backend/main.py: the POST /analyze handler `analyze` and the   *)
(* upstream client `call_ai_agent`.                                        *)
(*                                                                         *)
(* A Python string is a sequence of tokens.  The code of a submission and  *)
(* the texts the provider returns are sequences of one-character tokens;   *)
(* a literal of the source ("Analysis failed: ") is one token.  f-string   *)
(* formatting is concatenation (\o).  A Python value is a record with a     *)
(* `type` field, so that None and a str never compare equal.               *)
(*                                                                         *)
(* The handler runs up to its next `await client.post(...)` in one step;   *)
(* the provider's answer (or a transport failure) resumes it.              *)
(***************************************************************************)
EXTENDS Integers, Sequences, FiniteSets, TLC

VARIABLES
    OPENROUTER_API_KEY, \* module constant read from the environment at start
    pc,                 \* "idle", the role whose POST is awaited, or "done"
    input_data,         \* the CodeInput of the request being handled
    analysis_text,      \* locals of analyze
    test_text,
    doc_text,
    posts,              \* HTTP POSTs issued to the provider for this request
    replies,            \* what the provider answered to them, in order
    response            \* the HTTP response of POST /analyze

vars == <<OPENROUTER_API_KEY, pc, input_data, analysis_text, test_text,
          doc_text, posts, replies, response>>

----------------------------------------------------------------------------
(* Bounds and program constants *)

MaxCodeLen == 11

MaxTextLen == 5

MinCodeLen == 10

MinScore == 70

MaxScore == 95

DefaultScore == 85

HTTP_OK == 200

HTTP_BAD_REQUEST == 400

HTTP_ERROR == 500

----------------------------------------------------------------------------
(* Python values and strings *)

Str(s) == [type |-> "str", val |-> s]

None == [type |-> "NoneType"]

Unbound == [type |-> "unbound"]

Whitespace == {" ", "\n", "\t"}

Digits == {"0", "1", "2", "3", "4", "5", "6", "7", "8", "9"}

RECURSIVE LStrip(_)
LStrip(s) ==
    IF s # <<>> /\ Head(s) \in Whitespace THEN LStrip(Tail(s)) ELSE s

RECURSIVE RStrip(_)
RStrip(s) ==
    IF s # <<>> /\ s[Len(s)] \in Whitespace
    THEN RStrip(SubSeq(s, 1, Len(s) - 1))
    ELSE s

\* str.strip()
Strip(s) == RStrip(LStrip(s))

\* all strings over `alphabet` of at most n characters
StringsUpTo(alphabet, n) == UNION {[1..k -> alphabet] : k \in 0..n}

Rep(c, n) == [i \in 1..n |-> c]

\* s contains sub as a contiguous substring
Contains(s, sub) ==
    \E i \in 0..(Len(s) - Len(sub)) : SubSeq(s, i + 1, i + Len(sub)) = sub

----------------------------------------------------------------------------
(* Exceptions *)

HTTPException(status_code, detail) ==
    [type |-> "HTTPException", status_code |-> status_code, detail |-> detail]

OtherException(type, text) == [type |-> type, text |-> text]

\* str(e): Starlette's HTTPException.__str__ gives "<status_code>: <detail>";
\* any other exception gives its message.
StrExc(e) ==
    IF e.type = "HTTPException"
    THEN <<ToString(e.status_code), ": ">> \o e.detail
    ELSE e.text

KeyErrorChoices == OtherException("KeyError", <<"'choices'">>)

TypeErrorFindall ==
    OtherException("TypeError", <<"expected string or bytes-like object">>)

ValidationErrorResponse ==
    OtherException("ValidationError", <<"validation error for AgentResponse">>)

----------------------------------------------------------------------------
(* Pure parts of analyze *)

\* the mutant forgets to strip the code
TooShortNoStrip(code) ==
    \/ code = <<>>
    \/ Len(code) < MinCodeLen

\* the mutant counts only the non-whitespace characters of the code
TooShortNonWhitespace(code) ==
    \/ code = <<>>
    \/ Cardinality({i \in 1..Len(code) : code[i] \notin Whitespace}) < MinCodeLen

\* `not input_data.code or len(input_data.code.strip()) < 10`
TooShort(code) ==
    \/ code = <<>>
    \/ Len(Strip(code)) < MinCodeLen

\* last index of the greedy run of digits of s that starts at i
RECURSIVE RunEnd(_, _)
RunEnd(s, i) ==
    IF i < Len(s) /\ s[i + 1] \in Digits THEN RunEnd(s, i + 1) ELSE i

\* re.findall(r'(\d+)[%]?', s) from position i: the captured groups of the
\* non-overlapping matches, left to right
RECURSIVE FindAllFrom(_, _)
FindAllFrom(s, i) ==
    IF i > Len(s) THEN <<>>
    ELSE IF s[i] \notin Digits THEN FindAllFrom(s, i + 1)
    ELSE LET j == RunEnd(s, i)
             k == IF j < Len(s) /\ s[j + 1] = "%" THEN j + 2 ELSE j + 1
         IN  <<SubSeq(s, i, j)>> \o FindAllFrom(s, k)

FindAll(s) == FindAllFrom(s, 1)

DigitVal(c) ==
    CASE c = "0" -> 0 [] c = "1" -> 1 [] c = "2" -> 2 [] c = "3" -> 3
      [] c = "4" -> 4 [] c = "5" -> 5 [] c = "6" -> 6 [] c = "7" -> 7
      [] c = "8" -> 8 [] c = "9" -> 9

\* float(score) of a string of digits
RECURSIVE Float(_)
Float(d) ==
    IF d = <<>> THEN 0
    ELSE 10 * Float(SubSeq(d, 1, Len(d) - 1)) + DigitVal(d[Len(d)])

InRange(v) == MinScore <= v /\ v <= MaxScore

\* the mutant takes the last qualifying score instead of breaking at the first
RECURSIVE FirstScoreLast(_)
FirstScoreLast(scores) ==
    IF scores = <<>> THEN DefaultScore
    ELSE IF InRange(Float(scores[Len(scores)])) THEN Float(scores[Len(scores)])
    ELSE FirstScoreLast(SubSeq(scores, 1, Len(scores) - 1))

\* quality_score = 85.0; for score in scores: ... if 70 <= s <= 95: ... break
RECURSIVE FirstScore(_)
FirstScore(scores) ==
    IF scores = <<>> THEN DefaultScore
    ELSE IF InRange(Float(Head(scores))) THEN Float(Head(scores))
    ELSE FirstScore(Tail(scores))

\* int(x / y): the quotient truncated towards zero
IntDiv(x, y) == IF x >= 0 THEN x \div y ELSE -((-x) \div y)

\* the mutant rounds up
IssuesFoundCeil(quality_score) ==
    LET n == IntDiv((100 - quality_score) + 9, 10) IN IF n > 0 THEN n ELSE 0

\* max(0, int((100 - quality_score) / 10))
IssuesFound(quality_score) ==
    LET n == IntDiv(100 - quality_score, 10) IN IF n > 0 THEN n ELSE 0

\* the mutant mixes up the tester's and the documenter's texts
AgentResponseSwapped(analysis, tests, documentation, quality_score, issues_found, timestamp) ==
    [analysis |-> analysis, tests |-> documentation, documentation |-> tests,
     quality_score |-> quality_score, issues_found |-> issues_found,
     timestamp |-> timestamp]

AgentResponse(analysis, tests, documentation, quality_score, issues_found, timestamp) ==
    [analysis |-> analysis, tests |-> tests, documentation |-> documentation,
     quality_score |-> quality_score, issues_found |-> issues_found,
     timestamp |-> timestamp]

----------------------------------------------------------------------------
(* call_ai_agent *)

Roles == {"analyzer", "tester", "documenter"}

system_prompts ==
    [analyzer |-> <<"You are a code quality analyzer. Analyze code for bugs, style issues, and best practices. Always include a quality score between 70-95.">>,
     tester |-> <<"You are a test generation expert. Generate comprehensive unit tests with multiple test cases.">>,
     documenter |-> <<"You are a technical documentation writer. Create clear, structured documentation.">>]

\* the f-string prompts of analyze
Prompt(role, in) ==
    CASE role = "analyzer" ->
           <<"Analyze this ">> \o in.language
             \o <<" code and provide quality score (70-95) and issues:\n\n">> \o in.code
      [] role = "tester" ->
           <<"Generate unit tests for this ">> \o in.language \o <<" code:\n\n">> \o in.code
      [] role = "documenter" ->
           <<"Write comprehensive documentation for this ">> \o in.language
             \o <<" code:\n\n">> \o in.code

\* the request client.post sends
Post(role, in) ==
    [role |-> role,
     authorization |-> <<"Bearer ">> \o OPENROUTER_API_KEY,
     system |-> system_prompts[role],
     user |-> Prompt(role, in)]

\* the mutant forgets response.text
UpstreamErrorNoBody(reply) == HTTPException(HTTP_ERROR, <<"AI API error: ">>)

\* raise HTTPException(status_code=500, detail=f"AI API error: {response.text}")
UpstreamError(reply) == HTTPException(HTTP_ERROR, <<"AI API error: ">> \o reply.text)

ApiKeyError == HTTPException(HTTP_ERROR, <<"API key not configured">>)

\* the mutant never notices a missing key
KeyMissingNever == FALSE

\* `if not OPENROUTER_API_KEY`
KeyMissing == OPENROUTER_API_KEY = <<>>

\* the provider's answer to one POST: its status, its raw body and what
\* response.json() makes of the body
OkReply(content) ==
    [status_code |-> HTTP_OK, text |-> <<"{json}">>,
     json |-> [shape |-> "choices", content |-> content]]

NoChoicesReply(status_code, text) ==
    [status_code |-> status_code, text |-> text, json |-> [shape |-> "no_choices"]]

\* result["choices"][0]["message"]["content"]
Content(reply) == reply.json.content

----------------------------------------------------------------------------
(* analyze *)

\* the mutant reports the failure without str(e)
ExceptHandlerNoText(e) ==
    [status_code |-> HTTP_ERROR, content |-> [detail |-> <<"Analysis failed: ">>]]

\* the mutant reports the failure as a client error
ExceptHandler400(e) ==
    [status_code |-> HTTP_BAD_REQUEST,
     content |-> [detail |-> <<"Analysis failed: ">> \o StrExc(e)]]

\* except Exception as e: raise HTTPException(500, f"Analysis failed: {str(e)}")
ExceptHandler(e) ==
    [status_code |-> HTTP_ERROR,
     content |-> [detail |-> <<"Analysis failed: ">> \o StrExc(e)]]

CodeTooShort ==
    [status_code |-> HTTP_BAD_REQUEST, content |-> [detail |-> <<"Code too short">>]]

\* the mutant calls the documenter before the tester
NextRoleSwapped(role) ==
    CASE role = "analyzer" -> "documenter"
      [] role = "documenter" -> "tester"
      [] role = "tester" -> "return"

\* the order of the three awaits of analyze
NextRole(role) ==
    CASE role = "analyzer" -> "tester"
      [] role = "tester" -> "documenter"
      [] role = "documenter" -> "return"

\* an exception raised inside the try block ends the request
Raise(e, sent) ==
    /\ pc' = "done"
    /\ posts' = sent
    /\ response' = ExceptHandler(e)

\* call_ai_agent up to `await client.post(...)`
CallAiAgent(role, in, sent) ==
    IF KeyMissing
    THEN Raise(ApiKeyError, sent)
    ELSE /\ pc' = role
         /\ posts' = Append(sent, Post(role, in))
         /\ response' = Unbound

\* score extraction and the construction of the AgentResponse
Return(analysis, tests, documentation, timestamp) ==
    IF analysis.type # "str"
    THEN Raise(TypeErrorFindall, posts)
    ELSE LET quality_score == FirstScore(FindAll(analysis.val))
             issues_found == IssuesFound(quality_score)
         IN  IF tests.type # "str" \/ documentation.type # "str"
             THEN Raise(ValidationErrorResponse, posts)
             ELSE /\ pc' = "done"
                  /\ posts' = posts
                  /\ response' =
                       [status_code |-> HTTP_OK,
                        content |-> AgentResponse(analysis.val, tests.val,
                                       documentation.val, quality_score,
                                       issues_found, timestamp)]

\* POST /analyze arrives: validation, then the analyzer call is issued
Submit(code, language) ==
    /\ pc \in {"idle", "done"}
    /\ input_data' = [code |-> code, language |-> language]
    /\ analysis_text' = Unbound
    /\ test_text' = Unbound
    /\ doc_text' = Unbound
    /\ replies' = <<>>
    /\ IF TooShort(code)
       THEN /\ pc' = "done"
            /\ posts' = <<>>
            /\ response' = CodeTooShort
       ELSE CallAiAgent("analyzer", input_data', <<>>)
    /\ UNCHANGED OPENROUTER_API_KEY

\* the provider answers the awaited POST; call_ai_agent returns or raises and
\* analyze runs on to its next await or to its end
UpstreamReply(reply, timestamp) ==
    /\ pc \in Roles
    /\ replies' = Append(replies, [role |-> pc, reply |-> reply, raised |-> None])
    /\ IF reply.status_code # HTTP_OK
       THEN /\ Raise(UpstreamError(reply), posts)
            /\ UNCHANGED <<analysis_text, test_text, doc_text>>
       ELSE IF reply.json.shape # "choices"
       THEN /\ Raise(KeyErrorChoices, posts)
            /\ UNCHANGED <<analysis_text, test_text, doc_text>>
       ELSE /\ analysis_text' = IF pc = "analyzer" THEN Content(reply) ELSE analysis_text
            /\ test_text' = IF pc = "tester" THEN Content(reply) ELSE test_text
            /\ doc_text' = IF pc = "documenter" THEN Content(reply) ELSE doc_text
            /\ IF NextRole(pc) \in Roles
               THEN CallAiAgent(NextRole(pc), input_data, posts)
               ELSE Return(analysis_text', test_text', doc_text', timestamp)
    /\ UNCHANGED <<OPENROUTER_API_KEY, input_data>>

\* client.post raises (timeout after 30 s, connection failure)
TransportError(e) ==
    /\ pc \in Roles
    /\ replies' = Append(replies, [role |-> pc, reply |-> None, raised |-> e])
    /\ Raise(e, posts)
    /\ UNCHANGED <<OPENROUTER_API_KEY, input_data, analysis_text, test_text, doc_text>>

----------------------------------------------------------------------------
(* Inputs *)

ApiKeys == {<<>>, <<"sk-or-key">>}

Languages == {<<"python">>}

Timestamps == {<<"2024-01-01T00:00:00">>}

CodeChars == {" ", "a"}

AllCodes == StringsUpTo(CodeChars, MaxCodeLen)

SampleCodes ==
    {<<>>, Rep(" ", 3), Rep("a", 9), <<" ">> \o Rep("a", 9) \o <<"\n">>,
     Rep("a", 10), <<"\t">> \o Rep("a", 10) \o <<" ">>,
     <<"a", " ", "a", " ", "a", " ", "a", " ", "a", " ", "a">>}

OneCode == {Rep("a", 10)}

TextChars == {"0", "2", "5", "7", "8", "9", "%", "x"}

AllTexts == StringsUpTo(TextChars, MaxTextLen)

SampleTexts == {<<"8", "2", "%">>, <<"x", "2", "0", "0">>, <<"t">>}

OneText == {<<"t">>}

ErrorStatuses == {201, 429, 500}

ErrorBodies == {<<>>, <<"r", "a", "t", "e">>}

TransportErrors ==
    {OtherException("ReadTimeout", <<>>),
     OtherException("ConnectError", <<"All connection attempts failed">>)}

FailureReplies ==
    {NoChoicesReply(s, b) : s \in ErrorStatuses, b \in ErrorBodies}
      \cup {NoChoicesReply(HTTP_OK, <<"{}">>), OkReply(None)}

Replies(texts) == {OkReply(Str(t)) : t \in texts} \cup FailureReplies

Init ==
    /\ OPENROUTER_API_KEY \in ApiKeys
    /\ pc = "idle"
    /\ input_data = Unbound
    /\ analysis_text = Unbound
    /\ test_text = Unbound
    /\ doc_text = Unbound
    /\ posts = <<>>
    /\ replies = <<>>
    /\ response = Unbound

\* every role answers with any of a few texts or fails in any way
Next ==
    \/ \E code \in SampleCodes, language \in Languages : Submit(code, language)
    \/ \E reply \in Replies(SampleTexts), ts \in Timestamps : UpstreamReply(reply, ts)
    \/ \E e \in TransportErrors : TransportError(e)

Spec == Init /\ [][Next]_vars

\* one request with any code of at most MaxCodeLen characters; one text per
\* role
NextValidate ==
    \/ /\ pc = "idle"
       /\ \E code \in AllCodes, language \in Languages : Submit(code, language)
    \/ \E reply \in {OkReply(Str(t)) : t \in OneText} \cup {NoChoicesReply(429, <<>>)},
          ts \in Timestamps : UpstreamReply(reply, ts)
    \/ /\ pc = "analyzer"
       /\ \E e \in TransportErrors : TransportError(e)

SpecValidate == Init /\ [][NextValidate]_vars

\* one request with one code; any analyzer text of at most MaxTextLen
\* characters, one text for the tester and the documenter
NextScore ==
    \/ /\ pc = "idle"
       /\ \E code \in OneCode, language \in Languages : Submit(code, language)
    \/ \E reply \in {OkReply(Str(t)) : t \in IF pc = "analyzer" THEN AllTexts ELSE OneText},
          ts \in Timestamps : UpstreamReply(reply, ts)
    \/ /\ pc = "analyzer"
       /\ \E e \in TransportErrors : TransportError(e)

SpecScore == Init /\ [][NextScore]_vars

----------------------------------------------------------------------------
(* Vocabulary of the properties, stated without the operators of the model *)

Max(S) == CHOOSE x \in S : \A y \in S : y <= x

Min(S) == CHOOSE x \in S : \A y \in S : x <= y

NonWhitespaceAt(code) == {i \in 1..Len(code) : code[i] \notin Whitespace}

\* the length of the code without its leading and trailing whitespace
TrimmedLen(code) ==
    IF NonWhitespaceAt(code) = {} THEN 0
    ELSE Max(NonWhitespaceAt(code)) - Min(NonWhitespaceAt(code)) + 1

Received == pc # "idle"

Done == pc = "done"

Status == response.status_code

\* the call returned a completion to analyze
Returned(r) ==
    /\ r.reply # None
    /\ r.reply.status_code = 200
    /\ r.reply.json.shape = "choices"

\* the call returned a string
ReturnedStr(r) == Returned(r) /\ r.reply.json.content.type = "str"

\* the provider answered with a non-200 status
NonSuccess(r) == r.reply # None /\ r.reply.status_code # 200

\* the call raised
Failed(r) == ~Returned(r)

Last(seq) == seq[Len(seq)]

PipelineOrder == <<"analyzer", "tester", "documenter">>

AllThreeReturned(P(_)) ==
    /\ Len(replies) = 3
    /\ \A k \in 1..3 : replies[k].role = PipelineOrder[k] /\ P(replies[k])

\* the text of the exception a failed call raises
ErrorText(r) ==
    IF r.raised # None THEN r.raised.text
    ELSE IF r.reply.status_code # 200 THEN <<"AI API error: ">> \o r.reply.text
    ELSE <<"'choices'">>

----------------------------------------------------------------------------
(* Properties *)

\* C1: a submission whose code, stripped of leading and trailing whitespace,
\* is shorter than 10 characters is answered 400 at once and no POST to the
\* provider is issued for it, whether or not the API key is set.
C1_ShortCodeRejected ==
    (Received /\ TrimmedLen(input_data.code) < 10)
        => (Done /\ Status = 400 /\ posts = <<>> /\ replies = <<>>)

C1_Witness ==
    /\ Done
    /\ OPENROUTER_API_KEY # <<>>
    /\ Len(input_data.code) > 10
    /\ TrimmedLen(input_data.code) = 9
    /\ Status = 400
    /\ posts = <<>>

\* C2 as stated: with the API key unset every submission, short code
\* included, is answered 500 without a POST to the provider.
C2_Original ==
    (Received /\ OPENROUTER_API_KEY = <<>>)
        => (Done /\ Status = 500 /\ posts = <<>>)

\* C2 amended: with the API key unset, every submission whose stripped code
\* has at least 10 characters is answered 500 without a POST to the provider;
\* a submission with shorter code is answered 400, also without a POST.
C2_UnsetKeyAfterValidation ==
    (Received /\ OPENROUTER_API_KEY = <<>>)
        => /\ Done
           /\ posts = <<>>
           /\ Status = IF TrimmedLen(input_data.code) >= 10 THEN 500 ELSE 400

C2_Witness ==
    /\ Done
    /\ OPENROUTER_API_KEY = <<>>
    /\ TrimmedLen(input_data.code) >= 10
    /\ Status = 500
    /\ response.content.detail = <<"Analysis failed: ", "500", ": ", "API key not configured">>
    /\ posts = <<>>

\* C3: when the three calls return the strings A (analyzer), T (tester) and
\* D (documenter), the response is 200 with analysis = A, tests = T and
\* documentation = D.
C3_FieldsVerbatim ==
    (Done /\ AllThreeReturned(ReturnedStr))
        => /\ Status = 200
           /\ response.content.analysis = replies[1].reply.json.content.val
           /\ response.content.tests = replies[2].reply.json.content.val
           /\ response.content.documentation = replies[3].reply.json.content.val

C3_Witness ==
    /\ Done
    /\ AllThreeReturned(ReturnedStr)
    /\ Status = 200
    /\ response.content.analysis # response.content.tests
    /\ response.content.tests # response.content.documentation
    /\ response.content.analysis # response.content.documentation

\* the maximal runs of decimal digits of s, as pairs <<first, last>>
DigitRuns(s) ==
    {r \in (1..Len(s)) \X (1..Len(s)) :
        /\ r[1] <= r[2]
        /\ \A i \in r[1]..r[2] : s[i] \in Digits
        /\ (r[1] = 1 \/ s[r[1] - 1] \notin Digits)
        /\ (r[2] = Len(s) \/ s[r[2] + 1] \notin Digits)}

RECURSIVE Pow10(_)
Pow10(n) == IF n = 0 THEN 1 ELSE 10 * Pow10(n - 1)

RECURSIVE RunValue(_, _, _)
RunValue(s, i, j) ==
    IF i > j THEN 0 ELSE DigitVal(s[i]) * Pow10(j - i) + RunValue(s, i + 1, j)

QualifyingRuns(s) ==
    {r \in DigitRuns(s) : 70 <= RunValue(s, r[1], r[2]) /\ RunValue(s, r[1], r[2]) <= 95}

\* the value of the leftmost maximal digit run of s within [70,95], else 85
ExpectedScore(s) ==
    IF QualifyingRuns(s) = {} THEN 85
    ELSE LET first == CHOOSE r \in QualifyingRuns(s) :
                          \A q \in QualifyingRuns(s) : r[1] <= q[1]
         IN  RunValue(s, first[1], first[2])

\* C4: in a 200 response quality_score is the value of the leftmost maximal
\* run of decimal digits of the analyzer text whose value is within [70,95],
\* and 85 when there is none; so it is always within [70,95].
C4_QualityScore ==
    (Done /\ Status = 200)
        => /\ response.content.quality_score = ExpectedScore(response.content.analysis)
           /\ 70 <= response.content.quality_score
           /\ response.content.quality_score <= 95

C4_Witness ==
    /\ Done
    /\ Status = 200
    /\ Cardinality(DigitRuns(response.content.analysis)) = 2
    /\ QualifyingRuns(response.content.analysis) = {}
    /\ response.content.quality_score = 85

\* floor(x / 10) for an integer x
Floor10(x) == CHOOSE n \in -100..100 : 10 * n <= x /\ x < 10 * (n + 1)

\* C5: in a 200 response issues_found = max(0, floor((100 - quality_score)/10));
\* 82, 90 and 85 give 1, and the count is between 0 and 3.
C5_IssuesFound ==
    (Done /\ Status = 200)
        => LET q == response.content.quality_score
               n == response.content.issues_found
           IN  /\ n = IF Floor10(100 - q) > 0 THEN Floor10(100 - q) ELSE 0
               /\ n \in 0..3
               /\ (q \in {82, 85, 90} => n = 1)

C5_Witness ==
    /\ Done
    /\ Status = 200
    /\ response.content.quality_score = 82
    /\ response.content.issues_found = 1

\* C6: when a call fails after earlier calls of the request returned, the
\* response is one 500 failure whose message holds the error text of the
\* failed call, and it has no field of the results obtained before.
C6_NoPartialResult ==
    (Done /\ Len(replies) >= 2 /\ Failed(Last(replies)))
        => /\ Status = 500
           /\ DOMAIN response.content = {"detail"}
           /\ Contains(response.content.detail, ErrorText(Last(replies)))

C6_Witness ==
    /\ Done
    /\ Len(replies) = 2
    /\ replies[1].role = "analyzer" /\ ReturnedStr(replies[1])
    /\ replies[2].role = "tester" /\ NonSuccess(replies[2])
    /\ replies[2].reply.text # <<>>
    /\ Status = 500

\* C7: the POSTs of a request are issued in the order analyzer, tester,
\* documenter, each role at most once, each only after the one before it
\* returned; after a failed call no further POST is issued, so there are at
\* most three.
C7_CallOrder ==
    /\ Len(posts) <= 3
    /\ \A k \in 1..Len(posts) : posts[k].role = PipelineOrder[k]
    /\ Len(replies) <= Len(posts)
    /\ Len(posts) <= Len(replies) + 1
    /\ \A k \in 1..Len(replies) :
          /\ replies[k].role = posts[k].role
          /\ (k < Len(posts) => Returned(replies[k]))
          /\ (Failed(replies[k]) => Len(posts) = k /\ Done)

C7_Witness ==
    /\ Done
    /\ Len(posts) = 2
    /\ posts[2].role = "tester"
    /\ Returned(replies[1])
    /\ Failed(replies[2])

\* C8 as stated: after a non-200 answer of the provider the message of the
\* 500 response holds both the provider's status code and its body.
C8_Original ==
    (Done /\ replies # <<>> /\ NonSuccess(Last(replies)))
        => /\ Contains(response.content.detail,
                       <<ToString(Last(replies).reply.status_code)>>)
           /\ Contains(response.content.detail, Last(replies).reply.text)

\* C8 amended: after a non-200 answer of the provider the response is 500 and
\* its message is "Analysis failed: 500: AI API error: " followed by the
\* provider's body; the provider's status code is not part of it.
C8_BodyPreserved ==
    (Done /\ replies # <<>> /\ NonSuccess(Last(replies)))
        => /\ Status = 500
           /\ response.content.detail =
                <<"Analysis failed: ", "500", ": ", "AI API error: ">>
                    \o Last(replies).reply.text
           /\ (Last(replies).reply.status_code # 500 =>
                 ~Contains(response.content.detail,
                           <<ToString(Last(replies).reply.status_code)>>))

C8_Witness ==
    /\ Done
    /\ replies # <<>>
    /\ NonSuccess(Last(replies))
    /\ Last(replies).reply.status_code = 429
    /\ Last(replies).reply.text = <<"r", "a", "t", "e">>
    /\ Status = 500

\* C9 as stated: every submission whose code has fewer than 10 non-whitespace
\* characters is rejected with 400.
C9_Original ==
    (Received /\ Cardinality(NonWhitespaceAt(input_data.code)) < 10)
        => (Done /\ Status = 400)

\* C9 amended: a submission is rejected with 400 exactly when its code,
\* stripped of leading and trailing whitespace, has fewer than 10 characters;
\* whitespace inside the code counts towards the minimum.
C9_TrimmedLength ==
    Received => ((Done /\ Status = 400) <=> TrimmedLen(input_data.code) < 10)

C9_Witness ==
    /\ Received
    /\ Cardinality(NonWhitespaceAt(input_data.code)) = 2
    /\ TrimmedLen(input_data.code) = 10
    /\ OPENROUTER_API_KEY # <<>>
    /\ pc = "analyzer"
    /\ Len(posts) = 1

\* C10: a 200 response comes only after the analyzer, tester and documenter
\* calls all returned; every other outcome of a validated request is 500, and
\* 400 is returned only for a validation failure.
C10_Outcomes ==
    Done =>
        /\ Status \in {200, 400, 500}
        /\ (Status = 200 => AllThreeReturned(ReturnedStr))
        /\ (Status = 400 => TrimmedLen(input_data.code) < 10 /\ posts = <<>>)
        /\ (TrimmedLen(input_data.code) >= 10 /\ ~AllThreeReturned(ReturnedStr)
              => Status = 500)

C10_Witness ==
    /\ Done
    /\ OPENROUTER_API_KEY # <<>>
    /\ Len(replies) = 3
    /\ Returned(replies[1]) /\ Returned(replies[2])
    /\ replies[3].reply # None
    /\ replies[3].reply.status_code = 200
    /\ replies[3].reply.json.shape = "no_choices"
    /\ Status = 500

====
